---- MODULE Spec2Model ----
(***************************************************************************)
(* A model of pyqmmm/combine_xyz_files.py: trajectory discovery            *)
(* (get_xyz_filenames), the frame-range prompt (request_frames), the frame *)
(* parser (multiframe_xyz_to_list) and the driver (combine_xyz_files).     *)
(*                                                                         *)
(* Python strings are sequences of one-character strings.  A line of a     *)
(* file is a record [text, pad]: text is what line.strip() leaves, pad     *)
(* says whether the line carries blanks around it besides its newline.     *)
(* A Python call either returns a value or raises: its outcome is a record *)
(* [exc, val] with exc = "none" for a normal return.                       *)
(***************************************************************************)
EXTENDS Integers, Sequences, FiniteSets, TLC

\* ---------------------------------------------------------------- bounds
MaxReqLen == 3      \* characters of a frame-range expression (function level)
MaxFileLines == 6   \* lines of a file handed to the frame parser (function level)
MaxFrames == 2      \* frames of a file on disk in a run of the driver

Digits == {"1", "2", "3"}
ReqChars == Digits \cup {"-", ","}

\* ------------------------------------------------------- Python outcomes
Ok(v) == [exc |-> "none", val |-> v]
Raise(e) == [exc |-> e, val |-> <<>>]

\* a Python object with its type, for == between objects of different types
PyStr(s) == [kind |-> "str", v |-> s]
PyTrue == [kind |-> "bool", v |-> <<"T", "r", "u", "e">>]
PyEq(a, b) == a.kind = b.kind /\ a.v = b.v

\* str.strip() of a line read from a file
strip(line) == line.text

DigitVal(c) == CASE c = "1" -> 1 [] c = "2" -> 2 [] c = "3" -> 3 [] OTHER -> 0

RECURSIVE Decimal(_)
Decimal(s) == IF s = <<>> THEN 0
              ELSE 10 * Decimal(SubSeq(s, 1, Len(s) - 1)) + DigitVal(s[Len(s)])

\* int(s) for a string over the model's characters: a non-empty run of digits
int(s) == IF s # <<>> /\ \A i \in 1..Len(s) : s[i] \in Digits
          THEN Ok(Decimal(s))
          ELSE Raise("ValueError")

\* s.split(sep): the pieces between the separators, empty pieces kept
RECURSIVE split(_, _)
split(s, sep) ==
    IF \A i \in 1..Len(s) : s[i] # sep THEN <<s>>
    ELSE LET p == CHOOSE i \in 1..Len(s) :
                      s[i] = sep /\ \A j \in 1..(i - 1) : s[j] # sep
         IN <<SubSeq(s, 1, p - 1)>> \o split(SubSeq(s, p + 1, Len(s)), sep)

\* list(range(a, b))
range(a, b) == [i \in 1..(IF b > a THEN b - a ELSE 0) |-> a + i - 1]

RECURSIVE Flatten(_)
Flatten(ss) == IF ss = <<>> THEN <<>> ELSE Head(ss) \o Flatten(Tail(ss))

\* len(*args): the builtin takes exactly one argument
len(args) == IF Len(args) = 1 THEN Ok(Len(args[1])) ELSE Raise("TypeError")

\* ------------------------------------------------------- request_frames
\* one element of the comprehension: range(sub[0], sub[-1] + 1) over
\* sub = list(map(int, ele.split('-')))
request_element(ele) ==
    LET parts == split(ele, "-")
        sub == [i \in 1..Len(parts) |-> int(parts[i])]
    IN IF \E i \in 1..Len(sub) : sub[i].exc # "none"
       THEN Raise("ValueError")
       ELSE Ok(range(sub[1].val, sub[Len(sub)].val + 1))

\* request is what input() returned
request_frames(request) ==
    IF request # <<>>
    THEN LET eles == split(request, "-")
             temp == [i \in 1..Len(eles) |-> request_element(eles[i])]
         IN IF \E i \in 1..Len(temp) : temp[i].exc # "none"
            THEN Raise("ValueError")
            ELSE Ok(Flatten([i \in 1..Len(temp) |-> temp[i].val]))
    ELSE Raise("UnboundLocalError")   \* frames is read with no value bound

\* ----------------------------------------------- multiframe_xyz_to_list
\* the locals of the function before the first line is read
parser_start == [xyz_as_list |-> <<>>, frame_contents |-> <<>>, line_count |-> 0,
                 frame_count |-> 0, first_line |-> TRUE, section_length |-> 0,
                 exc |-> "none"]

\* the body of "for line in trajectory" on one line; frame_contents, a string
\* built with +=, is the sequence of the lines added to it
parser_line(st, line) ==
    LET n == int(strip(line))
        s1 == IF st.first_line
              THEN IF n.exc # "none"
                   THEN [st EXCEPT !.exc = n.exc]
                   ELSE [st EXCEPT !.section_length = n.val + 2, !.first_line = FALSE]
              ELSE st
        s2 == IF s1.line_count = s1.section_length
              THEN [s1 EXCEPT !.line_count = 0, !.frame_contents = <<>>,
                              !.frame_count = @ + 1]
              ELSE s1
    IN IF s1.exc # "none" THEN s1
       ELSE [s2 EXCEPT !.frame_contents = @ \o <<line>>, !.line_count = @ + 1]

RECURSIVE parser_loop(_, _, _)
parser_loop(lines, i, st) ==
    IF i > Len(lines) \/ st.exc # "none" THEN st
    ELSE parser_loop(lines, i + 1, parser_line(st, lines[i]))

\* the locals when the file has been read: the one append after the loop
parser_locals(lines) ==
    LET st == parser_loop(lines, 1, parser_start)
    IN IF st.exc # "none" THEN st
       ELSE [st EXCEPT !.xyz_as_list = @ \o <<st.frame_contents>>]

\* lines is the content of the file named xyz_filename
multiframe_xyz_to_list(lines, xyz_filename) ==
    LET st == parser_locals(lines)
        printed == len(<<st.xyz_as_list, xyz_filename>>)   \* line 135
    IN IF st.exc # "none" THEN Raise(st.exc)
       ELSE IF printed.exc # "none" THEN Raise(printed.exc)
       ELSE Ok(st.xyz_as_list)

\* ---------------------------------------------------- get_xyz_filenames
scan_start == [trajectory |-> FALSE, first_line |-> TRUE, header_count |-> 0,
               atom_count |-> <<>>, stop |-> FALSE]

\* the body of "for line in current_file" on one line
scan_line(st, line) ==
    LET s1 == IF st.first_line
              THEN [st EXCEPT !.atom_count = strip(line), !.header_count = @ + 1,
                              !.first_line = FALSE]
              ELSE st
        s2 == IF strip(line) = s1.atom_count
              THEN [s1 EXCEPT !.header_count = @ + 1]
              ELSE s1
    IN IF s2.header_count > 1
       THEN [s2 EXCEPT !.trajectory = TRUE, !.stop = TRUE]
       ELSE s2

RECURSIVE scan_loop(_, _, _)
scan_loop(lines, i, st) ==
    IF i > Len(lines) \/ st.stop THEN st
    ELSE scan_loop(lines, i + 1, scan_line(st, lines[i]))

is_trajectory(lines) == scan_loop(lines, 1, scan_start).trajectory

\* sorted(file_list) builds a new list that is dropped: file_list keeps the
\* order glob gave it
sorted_discarded(file_list) == file_list

\* file_list is what glob.glob returned, fs the content of each file
get_xyz_filenames(file_list, fs) ==
    LET listed == sorted_discarded(file_list)
        keep(file) == is_trajectory(fs[file])
    IN SelectSeq(listed, keep)

\* ---------------------------------------------------- combine_xyz_files
\* input(): the next line of standard input
input(stdin) == IF stdin = <<>> THEN Raise("EOFError") ELSE Ok(Head(stdin))

\* lst[key]: a list takes an integer (counted from 0), never a tuple
list_getitem(lst, key) ==
    IF key.kind # "int" THEN Raise("TypeError")
    ELSE IF key.v < 0 \/ key.v >= Len(lst) THEN Raise("IndexError")
    ELSE Ok(lst[key.v + 1])

\* the key of request_frames(file)[1, 2, 3, 8]
literal_key == [kind |-> "tuple", v |-> <<1, 2, 3, 8>>]

\* [frame for index, frame in enumerate(xyz_list) if index + 1 in requested_frames]
RECURSIVE enumerate_filter(_, _, _)
enumerate_filter(xyz_list, index, requested_frames) ==
    IF index >= Len(xyz_list) THEN <<>>
    ELSE (IF \E j \in 1..Len(requested_frames) : requested_frames[j] = index + 1
          THEN <<xyz_list[index + 1]>> ELSE <<>>)
         \o enumerate_filter(xyz_list, index + 1, requested_frames)

\* list.reverse() reverses in place and returns None
list_reverse_result(lst) == [kind |-> "NoneType", v |-> <<>>]

\* combined_xyz_list += requested_xyz_list
list_iadd(combined, other) ==
    IF other.kind = "list" THEN Ok(combined \o other.v) ELSE Raise("TypeError")

\* One pass of "for file in xyz_filename_list", statement by statement, last
\* statement first.  st holds the locals xyz_list and combined_xyz_list, the
\* unread stdin, and exc, the exception that ended the pass ("none": none did).

\* lines 161-163: the reversal and the +=
body_reverse_add(st, requested_xyz_list, reverse_bool) ==
    LET contribution == IF PyEq(reverse_bool, PyTrue)
                        THEN list_reverse_result(requested_xyz_list)
                        ELSE [kind |-> "list", v |-> requested_xyz_list]
        added == list_iadd(st.combined_xyz_list, contribution)
    IN IF added.exc # "none" THEN [st EXCEPT !.exc = added.exc]
       ELSE [st EXCEPT !.combined_xyz_list = added.val]

\* lines 157-160: the selection and the reversal prompt
body_select(st, requested_frames) ==
    LET requested_xyz_list == enumerate_filter(st.xyz_list.v, 0, requested_frames)
        answer == input(st.stdin)
    IN IF answer.exc # "none" THEN [st EXCEPT !.exc = answer.exc]
       ELSE body_reverse_add([st EXCEPT !.stdin = Tail(@)], requested_xyz_list,
                             PyStr(answer.val))

\* line 156, the subscript on what request_frames returned
body_subscript(st, frames) ==
    LET requested_frames == list_getitem(frames, literal_key)
    IN IF requested_frames.exc # "none" THEN [st EXCEPT !.exc = requested_frames.exc]
       ELSE body_select(st, requested_frames.val)

\* line 156, the call of request_frames on the line the user typed
body_request(st, request) ==
    LET frames == request_frames(request)
    IN IF frames.exc # "none" THEN [st EXCEPT !.exc = frames.exc]
       ELSE body_subscript(st, frames.val)

\* line 156, the prompt inside request_frames (line 82)
body_prompt(st) ==
    LET request == input(st.stdin)
    IN IF request.exc # "none" THEN [st EXCEPT !.exc = request.exc]
       ELSE body_request([st EXCEPT !.stdin = Tail(@)], request.val)

\* line 155, then the rest
loop_body(st, lines, file) ==
    LET parsed == multiframe_xyz_to_list(lines, file)
    IN IF parsed.exc # "none" THEN [st EXCEPT !.exc = parsed.exc]
       ELSE body_prompt([st EXCEPT !.xyz_list = [bound |-> TRUE, v |-> parsed.val]])

\* ------------------------------------------------------------------ state
VARIABLES
    files,              \* the .xyz files of the directory: name -> lines
    file_list,          \* the order in which glob.glob lists them
    typed,              \* the lines the user types during the run, in order
    stdin,              \* those of them not yet read by input()
    pc,                 \* where combine_xyz_files is
    xyz_filename_list,  \* combine_xyz_files: the discovered trajectories
    position,           \* how many files of xyz_filename_list the loop has done
    xyz_list,           \* combine_xyz_files: [bound, v], bound once assigned
    combined_xyz_list,  \* combine_xyz_files: the accumulator
    combined_file,      \* combined.xyz: [exists, opened, data]
    exc,                \* the exception that ended the run, or "none"
    call,               \* function level: the call made
    ret                 \* function level: its outcome, once made

vars == <<files, file_list, typed, stdin, pc, xyz_filename_list, position, xyz_list,
          combined_xyz_list, combined_file, exc, call, ret>>

FileNames == {"./1.xyz", "./2.xyz"}

Line(t, p) == [text |-> <<t>>, pad |-> p]
Lines == {Line("1", FALSE), Line("1", TRUE), Line("c", FALSE), Line("H", FALSE)}

SeqsUpTo(S, n) == UNION {[1..k -> S] : k \in 0..n}

\* the files the driver meets: up to MaxFrames frames of one atom each
FrameA == <<Line("1", FALSE), Line("c", FALSE), Line("H", FALSE)>>
FrameB == <<Line("1", TRUE), Line("H", FALSE), Line("H", FALSE)>>
DiskContents == {Flatten(fs) : fs \in SeqsUpTo({FrameA, FrameB}, MaxFrames)}

\* what the user may type at a frames prompt and at a reversal prompt
TypedRequests == {<<>>, <<"1">>, <<"3">>, <<"1", "-", "2">>, <<"2", ",", "1">>}
TypedReversals == {<<>>, <<"T", "r", "u", "e">>}

Perms(S) == {q \in [1..Cardinality(S) -> S] : \A i, j \in 1..Cardinality(S) :
                 i # j => q[i] # q[j]}

NoCall == [fn |-> "none", request |-> <<>>, lines |-> <<>>]
NoRet == [made |-> FALSE, exc |-> "none", val |-> <<>>, built |-> <<>>]

\* ----------------------------------------------------- the driver's run
Init ==
    /\ \E present \in SUBSET FileNames :
          /\ files \in [present -> DiskContents]
          /\ file_list \in Perms(present)
          /\ typed \in {q \in [1..(2 * Cardinality(present)) -> TypedRequests \cup TypedReversals] :
                           \A i \in DOMAIN q : IF i % 2 = 1 THEN q[i] \in TypedRequests
                                                            ELSE q[i] \in TypedReversals}
    /\ stdin = typed
    /\ pc = "discover"
    /\ xyz_filename_list = <<>>
    /\ position = 0
    /\ xyz_list = [bound |-> FALSE, v |-> <<>>]
    /\ combined_xyz_list = <<>>
    /\ combined_file = [exists |-> FALSE, opened |-> FALSE, data |-> <<>>]
    /\ exc = "none"
    /\ call = NoCall
    /\ ret = NoRet

\* line 151
Discover ==
    /\ pc = "discover"
    /\ xyz_filename_list' = get_xyz_filenames(file_list, files)
    /\ pc' = "loop"
    /\ UNCHANGED <<files, file_list, typed, stdin, position, xyz_list, combined_xyz_list,
                   combined_file, exc, call, ret>>

\* lines 154-163, one file
ProcessFile ==
    /\ pc = "loop"
    /\ position < Len(xyz_filename_list)
    /\ LET file == xyz_filename_list[position + 1]
           st == loop_body([xyz_list |-> xyz_list, combined_xyz_list |-> combined_xyz_list,
                            stdin |-> stdin, exc |-> "none"], files[file], file)
       IN /\ xyz_list' = st.xyz_list
          /\ combined_xyz_list' = st.combined_xyz_list
          /\ stdin' = st.stdin
          /\ exc' = st.exc
          /\ pc' = IF st.exc # "none" THEN "raised" ELSE "loop"
          /\ position' = IF st.exc # "none" THEN position ELSE position + 1
    /\ UNCHANGED <<files, file_list, typed, xyz_filename_list, combined_file, call, ret>>

\* the open moved into the loop: combined.xyz is opened while files remain
OpenOutputInsideLoop ==
    /\ pc = "loop"
    /\ position <= Len(xyz_filename_list)
    /\ combined_file' = [exists |-> TRUE, opened |-> TRUE, data |-> <<>>]
    /\ pc' = "write"
    /\ UNCHANGED <<files, file_list, typed, stdin, xyz_filename_list, position, xyz_list,
                   combined_xyz_list, exc, call, ret>>

\* line 165: open('combined.xyz', 'w') creates the file or empties it
OpenOutput ==
    /\ pc = "loop"
    /\ position = Len(xyz_filename_list)
    /\ combined_file' = [exists |-> TRUE, opened |-> TRUE, data |-> <<>>]
    /\ pc' = "write"
    /\ UNCHANGED <<files, file_list, typed, stdin, xyz_filename_list, position, xyz_list,
                   combined_xyz_list, exc, call, ret>>

\* lines 166-167: each entry of xyz_list is written, then the file is closed;
\* data is the text of the file, line by line
WriteOutput ==
    /\ pc = "write"
    /\ IF xyz_list.bound
       THEN /\ combined_file' = [combined_file EXCEPT !.data = @ \o Flatten(xyz_list.v)]
            /\ pc' = "done"
            /\ exc' = exc
       ELSE /\ combined_file' = combined_file
            /\ pc' = "raised"
            /\ exc' = "UnboundLocalError"
    /\ UNCHANGED <<files, file_list, typed, stdin, xyz_filename_list, position, xyz_list,
                   combined_xyz_list, call, ret>>

Next == Discover \/ ProcessFile \/ OpenOutput \/ WriteOutput

Spec == Init /\ [][Next]_vars

\* -------------------------------------------------- the functions alone
Requests == SeqsUpTo(ReqChars, MaxReqLen)
FileTexts == SeqsUpTo(Lines, MaxFileLines)

InitFn ==
    /\ files = <<>>
    /\ file_list = <<>>
    /\ typed = <<>>
    /\ stdin = <<>>
    /\ pc = "idle"
    /\ xyz_filename_list = <<>>
    /\ position = 0
    /\ xyz_list = [bound |-> FALSE, v |-> <<>>]
    /\ combined_xyz_list = <<>>
    /\ combined_file = [exists |-> FALSE, opened |-> FALSE, data |-> <<>>]
    /\ exc = "none"
    /\ call \in {[fn |-> "request_frames", request |-> r, lines |-> <<>>] : r \in Requests}
           \cup {[fn |-> "multiframe_xyz_to_list", request |-> <<>>, lines |-> t] :
                    t \in FileTexts}
    /\ ret = NoRet

\* built: the list the frame parser held in xyz_as_list when the call ended,
\* the operand of its return statement
Returned(r) == [made |-> TRUE, exc |-> r.exc, val |-> r.val, built |-> <<>>]

CallRequestFrames ==
    /\ call.fn = "request_frames"
    /\ ~ret.made
    /\ ret' = Returned(request_frames(call.request))
    /\ UNCHANGED <<files, file_list, typed, stdin, pc, xyz_filename_list, position, xyz_list,
                   combined_xyz_list, combined_file, exc, call>>

CallMultiframe ==
    /\ call.fn = "multiframe_xyz_to_list"
    /\ ~ret.made
    /\ ret' = [Returned(multiframe_xyz_to_list(call.lines, "./1.xyz"))
                  EXCEPT !.built = parser_locals(call.lines).xyz_as_list]
    /\ UNCHANGED <<files, file_list, typed, stdin, pc, xyz_filename_list, position, xyz_list,
                   combined_xyz_list, combined_file, exc, call>>

NextFn == CallRequestFrames \/ CallMultiframe

SpecFn == InitFn /\ [][NextFn]_vars

\* ================================================================ claims
\* What the specification intends, for stating the claims.

Reverse(s) == [i \in 1..Len(s) |-> s[Len(s) + 1 - i]]

\* lines cut into consecutive blocks of m lines
RECURSIVE Blocks(_, _)
Blocks(lines, m) ==
    IF Len(lines) < m THEN <<>>
    ELSE <<SubSeq(lines, 1, m)>> \o Blocks(SubSeq(lines, m + 1, Len(lines)), m)

\* the number of lines of a frame, from the first line of the text
SectionLength(lines) == int(strip(lines[1])).val + 2

\* k >= 1 frames of n >= 1 atoms, each with the header of the first
ValidTrajectory(lines) ==
    /\ lines # <<>>
    /\ int(strip(lines[1])).exc = "none"
    /\ int(strip(lines[1])).val >= 1
    /\ Len(lines) % SectionLength(lines) = 0
    /\ \A i \in 1..Len(lines) :
           i % SectionLength(lines) = 1 => strip(lines[i]) = strip(lines[1])

FrameBlocks(lines) == Blocks(lines, SectionLength(lines))

\* a token of a frame-range expression: i, or A-B with A <= B
TokenParts(token) == split(token, "-")
IsInteger(s) == int(s).exc = "none"
IsBareInteger(token) == Len(TokenParts(token)) = 1 /\ IsInteger(token)
IsPair(token) ==
    /\ Len(TokenParts(token)) = 2
    /\ IsInteger(TokenParts(token)[1])
    /\ IsInteger(TokenParts(token)[2])
IsAscendingPair(token) ==
    IsPair(token) /\ int(TokenParts(token)[1]).val <= int(TokenParts(token)[2]).val
IsDescendingPair(token) ==
    IsPair(token) /\ int(TokenParts(token)[1]).val > int(TokenParts(token)[2]).val

Tokens(request) == split(request, ",")

WellFormedRequest(request) ==
    /\ request # <<>>
    /\ \A i \in 1..Len(Tokens(request)) :
           IsBareInteger(Tokens(request)[i]) \/ IsAscendingPair(Tokens(request)[i])

Expansion(token) ==
    IF IsBareInteger(token) THEN <<int(token).val>>
    ELSE range(int(TokenParts(token)[1]).val, int(TokenParts(token)[2]).val + 1)

IntendedFrames(request) ==
    Flatten([i \in 1..Len(Tokens(request)) |-> Expansion(Tokens(request)[i])])

\* --- the k-th file the driver processes, and what the user typed for it
FileOfPass(k) == xyz_filename_list[k]
RequestOfPass(k) == typed[2 * k - 1]
ReversalAsked(k) == typed[2 * k] = <<"T", "r", "u", "e">>

IndicesOfPass(k) == IntendedFrames(RequestOfPass(k))

\* the request of pass k is well formed and every index is a frame of the file
InRange(k) ==
    /\ ValidTrajectory(files[FileOfPass(k)])
    /\ WellFormedRequest(RequestOfPass(k))
    /\ \A j \in 1..Len(IndicesOfPass(k)) :
           IndicesOfPass(k)[j] \in 1..Len(FrameBlocks(files[FileOfPass(k)]))

\* the request of pass k is well formed and some index is no frame of the file
OutOfRange(k) ==
    /\ ValidTrajectory(files[FileOfPass(k)])
    /\ WellFormedRequest(RequestOfPass(k))
    /\ \E j \in 1..Len(IndicesOfPass(k)) :
           IndicesOfPass(k)[j] \notin 1..Len(FrameBlocks(files[FileOfPass(k)]))

IntendedSelection(k) ==
    [j \in 1..Len(IndicesOfPass(k)) |->
        FrameBlocks(files[FileOfPass(k)])[IndicesOfPass(k)[j]]]

IntendedContribution(k) ==
    IF ReversalAsked(k) THEN Reverse(IntendedSelection(k)) ELSE IntendedSelection(k)

RunEnded == pc \in {"done", "raised"}

\* an exception ended the run inside the per-file loop
RaisedInLoop == pc = "raised" /\ ~combined_file.opened

\* the passes of the per-file loop that have ended, normally or not
PassesEnded == IF pc = "discover" THEN 0
               ELSE position + (IF RaisedInLoop THEN 1 ELSE 0)

\* C1: when a run has ended in which every request was well formed and in
\* range, the text of combined.xyz is the concatenation, in processing order,
\* of each file's selected (and, where asked, reversed) frame blocks, verbatim.
C1_CombinedIsConcatenation ==
    (RunEnded /\ \A k \in 1..Len(xyz_filename_list) : InRange(k))
    => /\ PassesEnded = Len(xyz_filename_list)
       /\ combined_file.data =
              Flatten(Flatten([k \in 1..Len(xyz_filename_list) |-> IntendedContribution(k)]))

\* C2: applied to a valid trajectory text of k frames of n atoms, the frame
\* parser returns k blocks of n+2 lines each whose concatenation is the text.
C2_ParserRoundTrip ==
    (call.fn = "multiframe_xyz_to_list" /\ ret.made /\ ValidTrajectory(call.lines))
    => /\ ret.exc = "none"
       /\ Len(ret.val) * SectionLength(call.lines) = Len(call.lines)
       /\ \A i \in 1..Len(ret.val) : Len(ret.val[i]) = SectionLength(call.lines)
       /\ Flatten(ret.val) = call.lines

\* C3: on a well-formed expression request_frames returns the concatenation,
\* in token order, of [i] for a bare integer and [A..B] for a pair A-B.
C3_RequestExpansion ==
    (call.fn = "request_frames" /\ ret.made /\ WellFormedRequest(call.request))
    => ret.exc = "none" /\ ret.val = IntendedFrames(call.request)

\* C4: while every pass so far had an in-range request and no reversal, no pass
\* has failed and the accumulator holds, pass after pass, the frame at each
\* listed index, in listed order with duplicates kept.
C4_SelectionInListedOrder ==
    (\A k \in 1..PassesEnded : InRange(k) /\ ~ReversalAsked(k))
    => /\ ~RaisedInLoop
       /\ combined_xyz_list = Flatten([k \in 1..PassesEnded |-> IntendedSelection(k)])

\* C5: a pass with an in-range request that has ended has not failed, and it
\* has added to the accumulator its selection, reversed exactly when the user
\* asked for reversal.
C5_ReversalOnRequest ==
    \A k \in 1..PassesEnded :
        InRange(k)
        => /\ k <= position
           /\ \E before, after \in 0..Len(combined_xyz_list) :
                  /\ after = before + Len(IntendedSelection(k))
                  /\ SubSeq(combined_xyz_list, before + 1, after) =
                         (IF ReversalAsked(k) THEN Reverse(IntendedSelection(k))
                                              ELSE IntendedSelection(k))

\* C6: a pass whose request names an index outside [1, len(frames)] fails with
\* an index error and adds nothing to the accumulator.
C6_OutOfRangeIsIndexError ==
    \A k \in 1..PassesEnded :
        OutOfRange(k) => /\ RaisedInLoop
                         /\ k = position + 1
                         /\ exc = "IndexError"

\* C7: on an expression with a token A-B where A > B, request_frames fails: it
\* returns no frame list.
C7_DescendingRangeFails ==
    (/\ call.fn = "request_frames"
     /\ ret.made
     /\ \E i \in 1..Len(Tokens(call.request)) : IsDescendingPair(Tokens(call.request)[i]))
    => ret.exc # "none"

\* C8: on the empty expression request_frames completes without error and
\* returns the empty frame list.
C8_EmptyRequestSelectsNothing ==
    (call.fn = "request_frames" /\ ret.made /\ call.request = <<>>)
    => ret.exc = "none" /\ ret.val = <<>>

\* a file of one frame: no line after the first repeats the first line's
\* trimmed text
SingleFrame(lines) ==
    lines # <<>> /\ \A i \in 2..Len(lines) : strip(lines[i]) # strip(lines[1])

\* C9: no single-frame file is in the list get_xyz_filenames returns.
C9_SingleFrameExcluded ==
    pc # "discover"
    => \A i \in 1..Len(xyz_filename_list) : ~SingleFrame(files[xyz_filename_list[i]])

\* C10: while no file has contributed a frame, combined.xyz is not opened for
\* writing, and a run that ends so ends with an error.
C10_EmptyCombinationWritesNothing ==
    combined_xyz_list = <<>> => ~combined_file.opened /\ pc # "done"

NameRank(name) == CASE name = "./1.xyz" -> 1 [] name = "./2.xyz" -> 2

\* C12: the list get_xyz_filenames returns, which is the order in which the
\* driver processes the files, is in lexicographic order by file name whatever
\* the order in which glob listed the files.
C12_DiscoveryIsSorted ==
    pc # "discover"
    => \A i, j \in 1..Len(xyz_filename_list) :
           i < j => NameRank(xyz_filename_list[i]) < NameRank(xyz_filename_list[j])

\* the per-file loop has not yet completed for every discovered file
LoopUnfinished == pc \in {"discover", "loop"} \/ position < Len(xyz_filename_list)

OutputUntouched ==
    ~combined_file.exists /\ ~combined_file.opened /\ combined_file.data = <<>>

\* C13: combined.xyz is opened and written only after the per-file loop has
\* completed for every discovered file: until then, and for good when a pass
\* fails, the output is untouched.
C13_WrittenOnlyAfterLoop == LoopUnfinished => OutputUntouched

\* a pass has failed on a discovered file, and the run has ended there
C13_PassFailed ==
    /\ pc = "raised"
    /\ exc # "none"
    /\ position < Len(xyz_filename_list)
    /\ OutputUntouched

====
